---- MODULE Spec2Model ----
(***************************************************************************)
(* Model of main/commands/all/pingconf.go: the "ping" command's            *)
(* measureOutboundDelay and measureInstDelay.  The main goroutine runs     *)
(* load -> normalise -> core.New -> Start -> probe -> Close -> return; the *)
(* HTTP transport runs the dial callback on a goroutine of its own.        *)
(***************************************************************************)
EXTENDS Integers, Sequences, FiniteSets, TLC

VARIABLES
    pc,              \* position of the main goroutine in measureOutboundDelay
    config,          \* the *core.Config returned by core.LoadConfig
    inst,            \* the *core.Instance: its lifecycle state and what it was built from
    closeCount,      \* number of calls of inst.Close()
    timeout,         \* measureInstDelay's timeout argument (*pingTimeout)
    connectTimeout,  \* result of time.ParseDuration(timeout), in milliseconds
    reqs,            \* number of requests c.Do has sent (the client's reqs slice)
    scheme,          \* URL scheme of the request c.Do is sending
    dial,            \* position of the transport's dial goroutine
    dialCount,       \* number of invocations of core.Dial
    now,             \* monotonic clock, milliseconds
    start,           \* the value of time.Now() at line 230
    resp,            \* the last response c.Do received
    probeRet,        \* the (delay, err) pair measureInstDelay returned
    closeErr,        \* the error inst.Close() returned
    ret              \* the (string, error) pair measureOutboundDelay returned

vars == <<pc, config, inst, closeCount, timeout, connectTimeout, reqs, scheme,
          dial, dialCount, now, start, resp, probeRet, closeErr, ret>>

-----------------------------------------------------------------------------
(* Bounds of the model *)

MaxApp == 2        \* longest config.App
MaxInbound == 1    \* longest config.Inbound
MaxLen == 2        \* longest timeout string
MaxClock == 1      \* the clock stops ticking at this many milliseconds

(* Go's defaultCheckRedirect, used because the http.Client is built without
   a CheckRedirect: "stopped after 10 redirects". *)
MaxRedirects == 10

-----------------------------------------------------------------------------
(* Values *)

Nil == <<>>                        \* a nil error; also the empty string ""

\* the type tag serial.ToTypedMessage gives a built conf.LogConfig
LogType == "xray.app.log.Config"

\* logSerial: the typed message of &conf.LogConfig{LogLevel: "none"}
logSerial == [Type |-> LogType, Value |-> "loglevel:none"]

\* typed messages a loaded configuration may carry in config.App
AppEntries ==
    { [Type |-> LogType, Value |-> "loglevel:debug"],
      [Type |-> LogType, Value |-> "loglevel:warning"],
      [Type |-> "xray.app.dispatcher.Config", Value |-> "dispatcher"] }

InboundEntries == { [Tag |-> "socks-in", Port |-> 1080] }

RECURSIVE SeqsUpTo(_, _)
SeqsUpTo(S, n) ==
    IF n = 0 THEN { <<>> }
    ELSE LET shorter == SeqsUpTo(S, n - 1)
         IN  shorter \cup { Append(s, x) : s \in shorter, x \in S }

\* the configurations core.LoadConfig may return
Configs ==
    { [App |-> a, Inbound |-> i] :
        a \in SeqsUpTo(AppEntries, MaxApp), i \in SeqsUpTo(InboundEntries, MaxInbound) }

-----------------------------------------------------------------------------
(* Normalisation of the loaded configuration, lines 173-181 *)

\* a variant that stops at the first matching entry
RECURSIVE ReplaceFirstLog(_)
ReplaceFirstLog(app) ==
    IF app = <<>> THEN <<>>
    ELSE IF Head(app).Type = LogType THEN <<logSerial>> \o Tail(app)
    ELSE <<Head(app)>> \o ReplaceFirstLog(Tail(app))

\* a variant that overwrites every entry, whatever its type
ReplaceEveryEntry(app) == [i \in 1..Len(app) |-> logSerial]

\* for i, a := range config.App { if a.Type == logSerial.Type { config.App[i] = logSerial } }
ReplaceLog(app) ==
    [i \in 1..Len(app) |-> IF app[i].Type = logSerial.Type THEN logSerial ELSE app[i]]

\* a variant that forgets config.Inbound = nil
KeepInbound(c) == [App |-> ReplaceLog(c.App), Inbound |-> c.Inbound]

Normalize(c) == [App |-> ReplaceLog(c.App), Inbound |-> <<>>]

-----------------------------------------------------------------------------
(* time.ParseDuration on strings over Alphabet.  Durations are counted in
   milliseconds: every unit that can be spelled with the alphabet ("ms",
   "s", "m") is a whole number of them; the alphabet has no '.', so the
   fraction branch of ParseDuration is never entered and is left out. *)

Alphabet == { "0", "1", "-", "s", "m" }

TimeoutStrings == SeqsUpTo(Alphabet, MaxLen)

IsDigit(c) == c \in { "0", "1", "2", "3", "4", "5", "6", "7", "8", "9" }

DigitVal(c) ==
    CASE c = "0" -> 0 [] c = "1" -> 1 [] c = "2" -> 2 [] c = "3" -> 3 [] c = "4" -> 4
      [] c = "5" -> 5 [] c = "6" -> 6 [] c = "7" -> 7 [] c = "8" -> 8 [] c = "9" -> 9

\* leadingInt: consumes the leading digits of s
RECURSIVE leadingInt(_, _)
leadingInt(s, v) ==
    IF s # <<>> /\ IsDigit(Head(s)) THEN leadingInt(Tail(s), v * 10 + DigitVal(Head(s)))
    ELSE [v |-> v, rem |-> s]

\* the length of the unit: the characters up to the next '.' or digit
RECURSIVE unitLen(_)
unitLen(s) ==
    IF s = <<>> \/ Head(s) = "." \/ IsDigit(Head(s)) THEN 0 ELSE 1 + unitLen(Tail(s))

\* unitMap, in milliseconds
unitMap(u) ==
    CASE u = <<"m", "s">> -> 1
      [] u = <<"s">> -> 1000
      [] u = <<"m">> -> 60000
      [] u = <<"h">> -> 3600000
      [] OTHER -> 0

ErrInvalidDuration == <<"time: invalid duration">>
ErrMissingUnit == <<"time: missing unit in duration">>
ErrUnknownUnit == <<"time: unknown unit in duration">>

\* the loop "for s != """ of ParseDuration
RECURSIVE parseGroups(_, _)
parseGroups(s, d) ==
    IF s = <<>> THEN [d |-> d, err |-> Nil]
    ELSE IF ~IsDigit(Head(s)) THEN [d |-> 0, err |-> ErrInvalidDuration]
    ELSE LET li == leadingInt(s, 0)
             n  == unitLen(li.rem)
             u  == SubSeq(li.rem, 1, n)
         IN  IF li.rem = s THEN [d |-> 0, err |-> ErrInvalidDuration]
             ELSE IF n = 0 THEN [d |-> 0, err |-> ErrMissingUnit]
             ELSE IF unitMap(u) = 0 THEN [d |-> 0, err |-> ErrUnknownUnit]
             ELSE parseGroups(SubSeq(li.rem, n + 1, Len(li.rem)), d + li.v * unitMap(u))

ParseDuration(s) ==
    LET signed == s # <<>> /\ Head(s) \in { "-", "+" }
        neg    == signed /\ Head(s) = "-"
        body   == IF signed THEN Tail(s) ELSE s
        r      == parseGroups(body, 0)
    IN  IF body = <<"0">> THEN [d |-> 0, err |-> Nil]
        ELSE IF body = <<>> THEN [d |-> 0, err |-> ErrInvalidDuration]
        ELSE IF r.err # Nil THEN r
        ELSE [d |-> IF neg THEN 0 - r.d ELSE r.d, err |-> Nil]

-----------------------------------------------------------------------------
(* URLs, responses and the report *)

\* the values of the -u flag and of a Location header
Urls == { "https://www.google.com/", "http://example.test/", "ftp://example.test/", "://bad" }

\* url.Parse: the scheme of a well-formed URL, "" when the URL does not parse
UrlScheme(u) ==
    CASE u = "https://www.google.com/" -> "https"
      [] u = "http://example.test/" -> "http"
      [] u = "ftp://example.test/" -> "ftp"
      [] OTHER -> ""

NoResp == [StatusCode |-> 0, Status |-> "", Location |-> ""]

\* the responses a server may give to the HEAD request
Responses ==
    { [StatusCode |-> 200, Status |-> "200 OK", Location |-> ""],
      [StatusCode |-> 204, Status |-> "204 No Content", Location |-> ""],
      [StatusCode |-> 404, Status |-> "404 Not Found", Location |-> ""],
      [StatusCode |-> 503, Status |-> "503 Service Unavailable", Location |-> ""],
      [StatusCode |-> 302, Status |-> "302 Found", Location |-> ""],
      [StatusCode |-> 302, Status |-> "302 Found", Location |-> "http://example.test/"],
      [StatusCode |-> 307, Status |-> "307 Temporary Redirect", Location |-> "https://www.google.com/"],
      [StatusCode |-> 301, Status |-> "301 Moved Permanently", Location |-> "://bad"] }

\* redirectBehavior of the client for a HEAD request without a body
ShouldRedirect(r) == r.StatusCode \in { 301, 302, 303, 307, 308 }

Digit(n) ==
    CASE n = 0 -> "0" [] n = 1 -> "1" [] n = 2 -> "2" [] n = 3 -> "3" [] n = 4 -> "4"
      [] n = 5 -> "5" [] n = 6 -> "6" [] n = 7 -> "7" [] n = 8 -> "8" [] n = 9 -> "9"

\* the verb %d
RECURSIVE Itoa(_)
Itoa(n) ==
    IF n < 0 THEN <<"-">> \o Itoa(0 - n)
    ELSE IF n < 10 THEN <<Digit(n)>>
    ELSE Itoa(n \div 10) \o <<Digit(n % 10)>>

\* fmt.Sprintf("ret_msg:%s,ret_time:%d", httpStatus, timeElapsed)
Sprintf(httpStatus, timeElapsed) ==
    <<"ret_msg:", httpStatus, ",ret_time:">> \o Itoa(timeElapsed)

Pair(delay, err) == [delay |-> delay, err |-> err]

\* the *url.Error the client wraps every error of Do in
UrlError(err) == <<"Head">> \o err

ErrLoad == <<"failed to load config files">>
ErrNew == <<"core: invalid configuration">>
ErrStart == <<"core: failed to start">>
ErrClose == <<"core: failed to close">>
ErrParseURL == <<"parse: missing protocol scheme">>
ErrScheme == <<"unsupported protocol scheme">>
ErrDestination == <<"net: invalid destination">>
ErrRefused == <<"dial: connection refused">>
ErrHandshake == <<"tls: handshake failure">>
ErrHandshakeTimeout == <<"net/http: TLS handshake timeout">>
ErrEOF == <<"EOF">>
ErrClientTimeout == <<"context deadline exceeded (Client.Timeout exceeded while awaiting headers)">>
ErrLocation == <<"failed to parse Location header">>
ErrRedirects == <<"stopped after 10 redirects">>

-----------------------------------------------------------------------------
(* Decisions of the control flow *)

\* a variant that closes an Instance whose Start failed
StartFailedClose == "close"

\* if err != nil { return "", err } after inst.Start()
StartFailedNext == "done"

\* a variant that ignores the error of time.ParseDuration
ParseFailedNever(r) == FALSE

\* if err != nil after time.ParseDuration
ParseFailed(r) == r.err # Nil

\* a variant that returns a failed probe without closing the Instance
ProbeReturnSkipClose(p) == IF p.err # Nil THEN "done" ELSE "close"

\* where measureOutboundDelay goes when measureInstDelay returns
ProbeReturnNext(p) == "close"

\* a variant that reports a failed Close
ReturnCloseError(p, cerr) == IF cerr # Nil THEN Pair(Nil, cerr) ELSE p

\* inst.Close(); return delay, err
ReturnPair(p, cerr) == p

\* a variant that turns a 5xx status into an error
ProbeResultJudged(r, elapsed) ==
    IF r.StatusCode >= 500 THEN Pair(Nil, <<"bad status">>)
    ELSE Pair(Sprintf(r.Status, elapsed), Nil)

\* lines 235-241: what the probe returns for the response c.Do gave it
ProbeResult(r, elapsed) == Pair(Sprintf(r.Status, elapsed), Nil)

-----------------------------------------------------------------------------
(* Initial state: measureOutboundDelay has just been called *)

NoInst == [state |-> "none", App |-> <<>>, Inbound |-> <<>>]

DialAt(at, err) == [at |-> at, err |-> err]

Init ==
    /\ pc = "discover"
    /\ config = [App |-> <<>>, Inbound |-> <<>>]
    /\ inst = NoInst
    /\ closeCount = 0
    /\ timeout = <<>>
    /\ connectTimeout = 0
    /\ reqs = 0
    /\ scheme = ""
    /\ dial = DialAt("none", Nil)
    /\ dialCount = 0
    /\ now = 0
    /\ start = 0
    /\ resp = NoResp
    /\ probeRet = Pair(Nil, Nil)
    /\ closeErr = Nil
    /\ ret = Pair(Nil, Nil)

-----------------------------------------------------------------------------
(* measureOutboundDelay, the main goroutine *)

\* line 166: getConfigFilePath finds the files, or readConfDir ends the
\* process with log.Fatalln
GetConfigFilePath ==
    /\ pc = "discover"
    /\ \E fatal \in BOOLEAN : pc' = IF fatal THEN "exited" ELSE "load"
    /\ UNCHANGED <<config, inst, closeCount, timeout, connectTimeout, reqs, scheme,
                   dial, dialCount, now, start, resp, probeRet, closeErr, ret>>

\* lines 168-171
LoadConfig ==
    /\ pc = "load"
    /\ \/ \E c \in Configs :
            /\ config' = c
            /\ pc' = "normalize"
            /\ ret' = ret
       \/ /\ ret' = Pair(Nil, ErrLoad \o <<"config: unexpected token">>)
          /\ pc' = "done"
          /\ config' = config
    /\ UNCHANGED <<inst, closeCount, timeout, connectTimeout, reqs, scheme,
                   dial, dialCount, now, start, resp, probeRet, closeErr>>

\* lines 173-181
NormalizeConfig ==
    /\ pc = "normalize"
    /\ config' = Normalize(config)
    /\ pc' = "new"
    /\ UNCHANGED <<inst, closeCount, timeout, connectTimeout, reqs, scheme,
                   dial, dialCount, now, start, resp, probeRet, closeErr, ret>>

\* lines 183-186
CoreNew ==
    /\ pc = "new"
    /\ \/ /\ inst' = [state |-> "Constructed", App |-> config.App, Inbound |-> config.Inbound]
          /\ pc' = "start"
          /\ ret' = ret
       \/ /\ ret' = Pair(Nil, ErrNew)
          /\ pc' = "done"
          /\ inst' = inst
    /\ UNCHANGED <<config, closeCount, timeout, connectTimeout, reqs, scheme,
                   dial, dialCount, now, start, resp, probeRet, closeErr>>

\* lines 188-191
InstStart ==
    /\ pc = "start"
    /\ \/ /\ inst' = [inst EXCEPT !.state = "Started"]
          /\ pc' = "parse"
          /\ ret' = ret
       \/ /\ inst' = [inst EXCEPT !.state = "StartFailed"]
          /\ ret' = Pair(Nil, ErrStart)
          /\ pc' = StartFailedNext
    /\ UNCHANGED <<config, closeCount, timeout, connectTimeout, reqs, scheme,
                   dial, dialCount, now, start, resp, probeRet, closeErr>>

\* lines 192 and 198-201: measureInstDelay is called with *pingTimeout
ParseTimeout ==
    /\ pc = "parse"
    /\ \E t \in TimeoutStrings :
         LET r == ParseDuration(t)
         IN  /\ timeout' = t
             /\ IF ParseFailed(r)
                THEN /\ probeRet' = Pair(Nil, r.err)
                     /\ pc' = ProbeReturnNext(probeRet')
                     /\ connectTimeout' = connectTimeout
                ELSE /\ connectTimeout' = r.d
                     /\ pc' = "request"
                     /\ probeRet' = probeRet
    /\ UNCHANGED <<config, inst, closeCount, reqs, scheme,
                   dial, dialCount, now, start, resp, closeErr, ret>>

\* lines 203-230: the request is built from *pingUrl, the transport and the
\* client are made, and the clock is read
NewRequest ==
    /\ pc = "request"
    /\ \E u \in Urls :
         IF UrlScheme(u) = ""
         THEN /\ probeRet' = Pair(Nil, ErrParseURL)
              /\ pc' = ProbeReturnNext(probeRet')
              /\ UNCHANGED <<scheme, start>>
         ELSE /\ scheme' = UrlScheme(u)
              /\ start' = now
              /\ pc' = "do"
              /\ probeRet' = probeRet
    /\ UNCHANGED <<config, inst, closeCount, timeout, connectTimeout, reqs,
                   dial, dialCount, now, resp, closeErr, ret>>

\* line 231, one turn of the loop of c.Do: the request is sent, and the
\* transport starts a goroutine that dials a connection for it (keep-alives
\* are disabled, so no connection is reused)
ClientSend ==
    /\ pc = "do"
    /\ reqs' = reqs + 1
    /\ IF scheme \in { "http", "https" }
       THEN /\ dial' = DialAt("spawned", Nil)
            /\ pc' = "wait"
            /\ probeRet' = probeRet
       ELSE /\ probeRet' = Pair(Nil, UrlError(ErrScheme))
            /\ pc' = ProbeReturnNext(probeRet')
            /\ dial' = dial
    /\ UNCHANGED <<config, inst, closeCount, timeout, connectTimeout, scheme,
                   dialCount, now, start, resp, closeErr, ret>>

\* lines 231-234: the dial goroutine reported an error
RoundTripError ==
    /\ pc = "wait"
    /\ dial.at = "failed"
    /\ probeRet' = Pair(Nil, UrlError(dial.err))
    /\ pc' = ProbeReturnNext(probeRet')
    /\ dial' = DialAt("gone", Nil)
    /\ UNCHANGED <<config, inst, closeCount, timeout, connectTimeout, reqs, scheme,
                   dialCount, now, start, resp, closeErr, ret>>

\* lines 231-234: the connection is there but the server closes it without
\* answering
RoundTripEOF ==
    /\ pc = "wait"
    /\ dial.at = "ready"
    /\ probeRet' = Pair(Nil, UrlError(ErrEOF))
    /\ pc' = ProbeReturnNext(probeRet')
    /\ dial' = DialAt("gone", Nil)
    /\ UNCHANGED <<config, inst, closeCount, timeout, connectTimeout, reqs, scheme,
                   dialCount, now, start, resp, closeErr, ret>>

\* lines 231-241: the server answers.  The client follows a redirect that
\* carries a Location (default policy, at most MaxRedirects requests);
\* any other response is what c.Do returns, and the probe formats it
RoundTripResponse ==
    /\ pc = "wait"
    /\ dial.at = "ready"
    /\ \E r \in Responses :
         /\ resp' = r
         /\ dial' = DialAt("gone", Nil)
         /\ IF ~ShouldRedirect(r) \/ r.Location = ""
            THEN /\ probeRet' = ProbeResult(r, now - start)
                 /\ pc' = ProbeReturnNext(probeRet')
                 /\ scheme' = scheme
            ELSE IF UrlScheme(r.Location) = ""
            THEN /\ probeRet' = Pair(Nil, UrlError(ErrLocation))
                 /\ pc' = ProbeReturnNext(probeRet')
                 /\ scheme' = scheme
            ELSE IF reqs >= MaxRedirects
            THEN /\ probeRet' = Pair(Nil, UrlError(ErrRedirects))
                 /\ pc' = ProbeReturnNext(probeRet')
                 /\ scheme' = scheme
            ELSE /\ scheme' = UrlScheme(r.Location)
                 /\ pc' = "do"
                 /\ probeRet' = probeRet
    /\ UNCHANGED <<config, inst, closeCount, timeout, connectTimeout, reqs,
                   dialCount, now, start, closeErr, ret>>

\* lines 225-234: the timer of c.Timeout fires (the client arms it only for a
\* positive Timeout) and c.Do returns; the dial goroutine is not waited for
ClientTimeout ==
    /\ pc = "wait"
    /\ connectTimeout > 0
    /\ probeRet' = Pair(Nil, UrlError(ErrClientTimeout))
    /\ pc' = ProbeReturnNext(probeRet')
    /\ UNCHANGED <<config, inst, closeCount, timeout, connectTimeout, reqs, scheme,
                   dial, dialCount, now, start, resp, closeErr, ret>>

\* line 192: a panic is raised on the main goroutine inside c.Do.
\* measureOutboundDelay defers nothing, so the panic unwinds past line 193
ProbePanic ==
    /\ pc = "wait"
    /\ pc' = "panicked"
    /\ UNCHANGED <<config, inst, closeCount, timeout, connectTimeout, reqs, scheme,
                   dial, dialCount, now, start, resp, probeRet, closeErr, ret>>

\* lines 193-194: inst.Close(), whose error is dropped, and the return
InstClose ==
    /\ pc = "close"
    /\ closeCount' = closeCount + 1
    /\ inst' = [inst EXCEPT !.state = "Closed"]
    /\ \E e \in { Nil, ErrClose } :
         /\ closeErr' = e
         /\ ret' = ReturnPair(probeRet, e)
    /\ pc' = "done"
    /\ UNCHANGED <<config, timeout, connectTimeout, reqs, scheme,
                   dial, dialCount, now, start, resp, probeRet>>

-----------------------------------------------------------------------------
(* The transport's dial goroutine *)

\* the goroutine starts: it gives up if the request was cancelled meanwhile
DialConnFor ==
    /\ dial.at = "spawned"
    /\ dial' = DialAt(IF pc = "wait" THEN "callback" ELSE "gone", Nil)
    /\ UNCHANGED <<pc, config, inst, closeCount, timeout, connectTimeout, reqs, scheme,
                   dialCount, now, start, resp, probeRet, closeErr, ret>>

\* lines 216-221: the DialContext callback parses the destination and calls
\* core.Dial on inst
DialContext ==
    /\ dial.at = "callback"
    /\ \/ /\ dial' = DialAt("failed", ErrDestination)
          /\ dialCount' = dialCount
       \/ /\ dial' = DialAt("dialing", Nil)
          /\ dialCount' = dialCount + 1
    /\ UNCHANGED <<pc, config, inst, closeCount, timeout, connectTimeout, reqs, scheme,
                   now, start, resp, probeRet, closeErr, ret>>

\* line 221: core.Dial returns a connection or an error
CoreDialReturn ==
    /\ dial.at = "dialing"
    /\ \/ dial' = DialAt(IF scheme = "https" THEN "handshake" ELSE "ready", Nil)
       \/ dial' = DialAt("failed", ErrRefused)
    /\ UNCHANGED <<pc, config, inst, closeCount, timeout, connectTimeout, reqs, scheme,
                   dialCount, now, start, resp, probeRet, closeErr, ret>>

\* line 221: core.Dial panics.  Nothing recovers, and measureOutboundDelay
\* has no deferred call: the process ends where it stands
CoreDialPanic ==
    /\ dial.at = "dialing"
    /\ pc \in { "wait", "close" }
    /\ pc' = "panicked"
    /\ dial' = DialAt("gone", Nil)
    /\ UNCHANGED <<config, inst, closeCount, timeout, connectTimeout, reqs, scheme,
                   dialCount, now, start, resp, probeRet, closeErr, ret>>

\* lines 211-214: the TLS handshake on the dialled connection, bounded by
\* TLSHandshakeTimeout when that is not zero
TLSHandshake ==
    /\ dial.at = "handshake"
    /\ \/ dial' = DialAt("ready", Nil)
       \/ dial' = DialAt("failed", ErrHandshake)
       \/ /\ connectTimeout # 0
          /\ dial' = DialAt("failed", ErrHandshakeTimeout)
    /\ UNCHANGED <<pc, config, inst, closeCount, timeout, connectTimeout, reqs, scheme,
                   dialCount, now, start, resp, probeRet, closeErr, ret>>

\* the request that wanted the connection is gone: the result is dropped
DialDiscard ==
    /\ dial.at \in { "ready", "failed" }
    /\ pc # "wait"
    /\ dial' = DialAt("gone", Nil)
    /\ UNCHANGED <<pc, config, inst, closeCount, timeout, connectTimeout, reqs, scheme,
                   dialCount, now, start, resp, probeRet, closeErr, ret>>

\* time passes while the probe runs
Tick ==
    /\ pc \in { "request", "do", "wait" }
    /\ now < MaxClock
    /\ now' = now + 1
    /\ UNCHANGED <<pc, config, inst, closeCount, timeout, connectTimeout, reqs, scheme,
                   dial, dialCount, start, resp, probeRet, closeErr, ret>>

Next ==
    \/ GetConfigFilePath
    \/ LoadConfig
    \/ NormalizeConfig
    \/ CoreNew
    \/ InstStart
    \/ ParseTimeout
    \/ NewRequest
    \/ ClientSend
    \/ RoundTripError
    \/ RoundTripEOF
    \/ RoundTripResponse
    \/ ClientTimeout
    \/ ProbePanic
    \/ InstClose
    \/ DialConnFor
    \/ DialContext
    \/ CoreDialReturn
    \/ CoreDialPanic
    \/ TLSHandshake
    \/ DialDiscard
    \/ Tick

Spec == Init /\ [][Next]_vars

-----------------------------------------------------------------------------
(* Properties *)

StartSucceeded == inst.state \in { "Started", "Closed" }

Returned == pc = "done"

\* the step of NormalizeConfig
NormalizeStep == pc = "normalize" /\ pc' = "new"

LogIndexes(app) == { i \in 1..Len(app) : app[i].Type = LogType }

\* the response is a redirect that the client follows instead of returning it
Followed(r) == ShouldRedirect(r) /\ r.Location # ""

\* C1: once Start() has succeeded, Close() has been called exactly once when
\* measureOutboundDelay returns, whatever the probe returned, never earlier
\* than the probe's return and never twice.
CloseExactlyOnce ==
    /\ closeCount <= 1
    /\ (Returned /\ StartSucceeded) => (closeCount = 1 /\ inst.state = "Closed")
    /\ pc \in { "parse", "request", "do", "wait", "close" } => closeCount = 0

CloseExactlyOnceWitness ==
    /\ Returned
    /\ closeCount = 1
    /\ ret.err = UrlError(ErrClientTimeout)

\* C2: when the probe panics after Start() succeeded, Close() has still been
\* called on the Instance when control leaves measureOutboundDelay.
CloseOnPanic == pc = "panicked" => closeCount = 1

\* C3: a timeout string that does not parse makes the probe return the parse
\* error with an empty report, before any request is sent and with no dial
\* attempt at all.
ParseErrorBeforeNetwork ==
    (StartSucceeded /\ pc # "parse" /\ ParseDuration(timeout).err # Nil) =>
        /\ pc \in { "close", "done" }
        /\ probeRet = Pair(Nil, ParseDuration(timeout).err)
        /\ reqs = 0
        /\ dial.at = "none"
        /\ dialCount = 0
        /\ Returned => ret = probeRet

ParseErrorBeforeNetworkWitness ==
    /\ Returned
    /\ timeout = <<"1", "0">>
    /\ ret = Pair(Nil, ErrMissingUnit)
    /\ dialCount = 0

\* C4: after normalisation the inbound list is empty, normalising again
\* changes neither list, and the Instance is built from a configuration whose
\* inbound list is empty.
InboundCleared ==
    /\ pc \in { "new", "start", "parse", "request", "do", "wait", "close", "panicked" } =>
           /\ config.Inbound = <<>>
           /\ Normalize(config) = config
    /\ inst.state # "none" => (inst.Inbound = <<>> /\ inst.App = config.App)

InboundClearedWitness ==
    /\ pc = "start"
    /\ inst.state = "Constructed"
    /\ inst.Inbound = <<>>
    /\ Len(inst.App) = MaxApp

\* C5: with exactly one log entry in the application list, normalisation puts
\* the silent descriptor at that index and leaves every other entry, the
\* length and the order as they were; with no log entry the list is unchanged.
OneLogEntryReplaced ==
    [][NormalizeStep =>
          LET a == config.App
              b == config'.App
          IN  /\ Cardinality(LogIndexes(a)) = 1 =>
                     /\ Len(b) = Len(a)
                     /\ \A i \in 1..Len(a) :
                            b[i] = IF i \in LogIndexes(a) THEN logSerial ELSE a[i]
              /\ LogIndexes(a) = {} => b = a]_vars

OneLogEntryReplacedWitness ==
    /\ pc = "new"
    /\ Len(config.App) = 2
    /\ config.App[1].Type # LogType
    /\ config.App[2] = logSerial

FirstMatchWins ==
    [][NormalizeStep =>
          LET a == config.App
              b == config'.App
          IN  /\ Len(b) = Len(a)
              /\ \A i \in 1..Len(a) :
                     b[i] = IF i \in LogIndexes(a) /\ \A j \in LogIndexes(a) : i <= j
                            THEN logSerial ELSE a[i]]_vars

\* C8 as amended: every entry carrying the log type tag is overwritten with
\* the silent descriptor, and every other entry is left as it was.
EveryMatchReplaced ==
    [][NormalizeStep =>
          LET a == config.App
              b == config'.App
          IN  /\ Len(b) = Len(a)
              /\ \A i \in 1..Len(a) :
                     b[i] = IF i \in LogIndexes(a) THEN logSerial ELSE a[i]]_vars

EveryMatchReplacedWitness ==
    /\ pc = "new"
    /\ Cardinality(LogIndexes(config.App)) >= 2
    /\ \A i \in LogIndexes(config.App) : config.App[i] = logSerial

\* C9: a failure of loading, of core.New or of Start() is returned at once
\* with an empty report: the probe is not entered, nothing is dialled and
\* Close() is not called.
StagesFailFast ==
    /\ inst.state \in { "none", "Constructed", "StartFailed" } =>
           /\ closeCount = 0
           /\ dialCount = 0
           /\ reqs = 0
           /\ dial.at = "none"
           /\ timeout = <<>>
           /\ probeRet = Pair(Nil, Nil)
    /\ inst.state = "StartFailed" => (Returned /\ ret = Pair(Nil, ErrStart))
    /\ (Returned /\ inst.state = "none") =>
           /\ ret.delay = Nil
           /\ ret.err \in { ErrNew, ErrLoad \o <<"config: unexpected token">> }
           /\ ret.err # ErrNew => config.App = <<>>

StagesFailFastWitness ==
    /\ Returned
    /\ inst.state = "StartFailed"
    /\ ret = Pair(Nil, ErrStart)
    /\ closeCount = 0

\* C10: the Instance moves only Constructed -> Started -> Closed, and core.Dial
\* runs on it only while it is Started: never before Start() and never on or
\* after Close().
DialOnlyWhileStarted ==
    /\ dial.at = "dialing" => inst.state = "Started"
    /\ closeCount > 0 => inst.state = "Closed"

====
